---- MODULE Spec2Model ----
(***************************************************************************)
(* Leave-management backend: the employees and leaves routes, the          *)
(* validation helpers, the balance normalizer and the data-integrity       *)
(* sweep, over a relational store (employees, leaves) and a document       *)
(* directory.                                                              *)
(*                                                                         *)
(* Text values (identifiers, leave types, e-mail addresses) are sequences  *)
(* of one-character strings, so that trim / toUpperCase / toLowerCase /    *)
(* LOWER() are computed and not assumed.  Calendar dates are day numbers.  *)
(***************************************************************************)
EXTENDS Integers, Sequences, FiniteSets, TLC

\* ------------------------------------------------------------------ bounds

\* validateLeaveDays is applied to day counts 0..MaxDaysTried.
MaxDaysTried == 61
\* Leave ids handed out by the leaves table's SERIAL key are 1..MaxLeaves.
MaxLeaves == 2
\* Calendar days are 0..MaxDay.
MaxDay == 3
\* Files the upload directory can receive are 1..MaxDocs.
MaxDocs == 1
\* The balance normalizer is exercised on stored balances that lie within
\* Slack of 0 or of a cap.
Slack == 1
\* Route handlers that run at the same time hold connections 1..MaxConns.
MaxConns == 2
\* Notification ids handed out by the SERIAL key are 1..MaxNotifications.
MaxNotifications == 2

\* ------------------------------------------------------- program constants

\* `today` of validateDateRange: day 0 is in the past.
Today == 1
\* Defaults of the employees table / of the create-employee body.
DefaultCL == 30
DefaultRH == 15
DefaultEL == 18
\* Caps applied by normalizeEmployeeBalances.
CapCL == 30
CapRH == 15
CapEL == 18
\* Thresholds of the "high balances" query of checkDataIntegrity.
HighCL == 30
HighRH == 15
HighEL == 30
\* maxDays of validateLeaveDays and the operand of its trailing "|| 30".
MaxDaysCL == 30
MaxDaysRH == 15
MaxDaysEL == 60
DefaultMaxDays == 30

\* -------------------------------------------------------------------- text

Min(a, b) == IF a < b THEN a ELSE b
Max(a, b) == IF a > b THEN a ELSE b

\* The letters that occur in the model's texts: <<lower, upper>>.
CasePairs ==
    { <<"a", "A">>, <<"b", "B">>, <<"c", "C">>, <<"e", "E">>, <<"h", "H">>,
      <<"l", "L">>, <<"r", "R">>, <<"s", "S">>, <<"x", "X">>, <<"y", "Y">> }

\* Every character of the model's texts.
Chars ==
    { p[1] : p \in CasePairs } \cup { p[2] : p \in CasePairs }
    \cup { "I", "K", " ", "@", ".", "<", ">" }

UpperOf == [c \in Chars |-> IF \E p \in CasePairs : p[1] = c
                            THEN (CHOOSE p \in CasePairs : p[1] = c)[2] ELSE c]
LowerOf == [c \in Chars |-> IF \E p \in CasePairs : p[2] = c
                            THEN (CHOOSE p \in CasePairs : p[2] = c)[1] ELSE c]
UpperChar(c) == UpperOf[c]
LowerChar(c) == LowerOf[c]

\* String.prototype.toUpperCase / toLowerCase, and SQL LOWER().
toUpperCase(s) == [i \in 1..Len(s) |-> UpperChar(s[i])]
toLowerCase(s) == [i \in 1..Len(s) |-> LowerChar(s[i])]

RECURSIVE TrimLeft(_)
TrimLeft(s) == IF s # <<>> /\ Head(s) = " " THEN TrimLeft(Tail(s)) ELSE s
RECURSIVE TrimRight(_)
TrimRight(s) == IF s # <<>> /\ s[Len(s)] = " "
                THEN TrimRight(SubSeq(s, 1, Len(s) - 1)) ELSE s
\* String.prototype.trim.
trim(s) == TrimRight(TrimLeft(s))

IsAngle(c) == c \in {"<", ">"}
NotAngle(c) == ~IsAngle(c)
\* sanitizeInput: trim, then drop every angle bracket.
sanitizeInput(s) == SelectSeq(trim(s), NotAngle)

\* ------------------------------------------------------------- validation

CL == <<"C", "L">>
RH == <<"R", "H">>
EL == <<"E", "L">>
LeaveTypes == {CL, RH, EL}

\* An absent text field (undefined) reads as the empty text: (type || '').
\* validateLeaveType without the trim of its argument.
validateLeaveTypeUntrimmed(type) == toUpperCase(type) \in LeaveTypes
validateLeaveType(type) == trim(toUpperCase(type)) \in LeaveTypes

\* normalizeLeaveType returns the canonical type, or null (here <<>>).
normalizeLeaveType(type) ==
    IF trim(toUpperCase(type)) \in LeaveTypes THEN trim(toUpperCase(type)) ELSE <<>>

\* A balance as a request body carries it.
Undefined == [kind |-> "undefined", val |-> 0]
Null == [kind |-> "null", val |-> 0]
Num(n) == [kind |-> "num", val |-> n]

\* normalizeLeaveBalance: null / undefined -> 0, else max(0, parseInt(v)).
normalizeLeaveBalance(balance) ==
    IF balance.kind \in {"undefined", "null"} THEN 0 ELSE Max(0, balance.val)

\* An absent date.
NoDate == -1

\* validateDateRange: start >= today && end >= start.
validateDateRange(startDate, endDate) == startDate >= Today /\ endDate >= startDate

\* calculateLeaveDays without the "+ 1".
calculateLeaveDaysExclusive(startDate, endDate) == Max(1, endDate - startDate)

\* calculateLeaveDays: floor of the day difference, plus one, at least 1.
calculateLeaveDays(startDate, endDate) == Max(1, (endDate - startDate) + 1)

\* maxDays[leaveType] of validateLeaveDays: defined for the three canonical
\* keys only.
MaxDaysDefined(leaveType) == leaveType \in LeaveTypes
maxDays(leaveType) ==
    IF leaveType = CL THEN MaxDaysCL ELSE IF leaveType = RH THEN MaxDaysRH ELSE MaxDaysEL

\* JavaScript truthiness of a number.
Truthy(n) == n # 0

\* validateLeaveDays: false below 1; else  days <= maxDays[leaveType] || 30 ,
\* where a comparison with undefined is false.
validateLeaveDays(days, leaveType) ==
    IF days < 1 THEN FALSE
    ELSE (MaxDaysDefined(leaveType) /\ days <= maxDays(leaveType))
         \/ Truthy(DefaultMaxDays)

\* validateEmployeeId: present and not blank.
validateEmployeeId(employeeId) == employeeId # <<>> /\ trim(employeeId) # <<>>

\* validateEmail: /^[^\s@]+@[^\s@]+\.[^\s@]+$/ .
validateEmail(email) ==
    \E i \in 1..Len(email) :
        /\ email[i] = "@"
        /\ i > 1
        /\ \A k \in (1..Len(email)) \ {i} : email[k] \notin {" ", "@"}
        /\ \E j \in 1..Len(email) : j > i + 1 /\ j < Len(email) /\ email[j] = "."

\* ------------------------------------------------------------------- state

VARIABLES
    employees,    \* employees table: stored employee_id -> row
    leaves,       \* leaves table: id -> row
    nextLeaveId,  \* next value of the leaves table's SERIAL key
    docs,         \* files present in uploads/leave_docs
    nextDoc,      \* next fresh upload file name
    last,         \* the response to the last completed call
    txn,          \* the open transaction of normalizeEmployeeBalances
    sweep,        \* the position of a running checkDataIntegrity
    calls,        \* connection -> the route handler it is running, if any
    notifications,       \* notifications table: id -> row
    nextNotificationId   \* next value of the notifications table's SERIAL key

vars == <<employees, leaves, nextLeaveId, docs, nextDoc, last, txn, sweep, calls,
          notifications, nextNotificationId>>

PENDING == "PENDING"
APPROVED == "APPROVED"
REJECTED == "REJECTED"

\* No file / no document_path.
NoDoc == 0

\* The balance columns, by the prefix of their name (<prefix>_balance).
ColumnPrefixes == { <<"c", "l">>, <<"r", "h">>, <<"e", "l">> }

\* row[prefix + '_balance'] in JavaScript: undefined for an unknown name.
Field(row, prefix) ==
    [defined |-> prefix \in ColumnPrefixes,
     val |-> IF prefix = <<"c", "l">> THEN row.cl_balance
             ELSE IF prefix = <<"r", "h">> THEN row.rh_balance
             ELSE IF prefix = <<"e", "l">> THEN row.el_balance
             ELSE 0]

\* value < days in JavaScript: false when value is undefined.
LessThan(field, days) == field.defined /\ field.val < days

\* UPDATE employees SET <prefix>_balance = v.
SetField(row, prefix, v) ==
    IF prefix = <<"c", "l">> THEN [row EXCEPT !.cl_balance = v]
    ELSE IF prefix = <<"r", "h">> THEN [row EXCEPT !.rh_balance = v]
    ELSE [row EXCEPT !.el_balance = v]

\* Rows matched by  WHERE LOWER(employee_id) = LOWER($1).
MatchLower(id) == { e \in DOMAIN employees : toLowerCase(e) = toLowerCase(id) }

\* The response of a call.
NoRet == <<>>
Response(op, outcome) == [op |-> op, outcome |-> outcome, emp |-> <<>>, ret |-> NoRet]

NoBalanceRow == [cl_balance |-> 0, rh_balance |-> 0, el_balance |-> 0]
NoTxn == [pc |-> "idle", emp |-> <<>>, row |-> NoBalanceRow, by |-> "none"]
NoSweep == [pc |-> "idle", todo |-> {}]

\* The connections of the pool, and a connection that runs no handler.
Conns == 1..MaxConns
NoCall == [op |-> "idle", pc |-> "idle", req |-> <<>>, seen |-> <<>>]
NoCalls == [c \in Conns |-> NoCall]

\* No transaction and no sweep is in progress: requests are served one at a
\* time.
Quiet == txn.pc = "idle" /\ sweep.pc = "idle"

\* ------------------------------------------------------ balance normalizer

\* NormalizedBalances, with the sweep's threshold as the cap of el_balance.
NormalizedBalancesHighEL(row) ==
    [cl_balance |-> Min(CapCL, normalizeLeaveBalance(Num(row.cl_balance))),
     rh_balance |-> Min(CapRH, normalizeLeaveBalance(Num(row.rh_balance))),
     el_balance |-> Min(HighEL, normalizeLeaveBalance(Num(row.el_balance)))]

\* The clamped triple computed by normalizeEmployeeBalances from a row.
NormalizedBalances(row) ==
    [cl_balance |-> Min(CapCL, normalizeLeaveBalance(Num(row.cl_balance))),
     rh_balance |-> Min(CapRH, normalizeLeaveBalance(Num(row.rh_balance))),
     el_balance |-> Min(CapEL, normalizeLeaveBalance(Num(row.el_balance)))]

\* UPDATE employees SET cl_balance = $1, rh_balance = $2, el_balance = $3.
WithBalances(row, b) ==
    [row EXCEPT !.cl_balance = b.cl_balance,
                !.rh_balance = b.rh_balance,
                !.el_balance = b.el_balance]

Triple(b) == <<b.cl_balance, b.rh_balance, b.el_balance>>

\* WHERE cl_balance < 0 OR rh_balance < 0 OR el_balance < 0.
NegativeRows(emps) ==
    { e \in DOMAIN emps :
        emps[e].cl_balance < 0 \/ emps[e].rh_balance < 0 \/ emps[e].el_balance < 0 }

\* WHERE cl_balance > 30 OR rh_balance > 15 OR el_balance > 30.
HighRows(emps) ==
    { e \in DOMAIN emps :
        \/ emps[e].cl_balance > HighCL
        \/ emps[e].rh_balance > HighRH
        \/ emps[e].el_balance > HighEL }

\* The table after normalizeEmployeeBalances has run for every id of a set.
NormalizeAll(emps, ids) ==
    [e \in DOMAIN emps |->
        IF e \in ids THEN WithBalances(emps[e], NormalizedBalances(emps[e]))
        ELSE emps[e]]

\* ---------------------------------------------------------- employee routes

\* The parameter default of the create-employee body: `field = default`.
OrDefault(v, default) == IF v.kind = "undefined" THEN Num(default) ELSE v

\* The row inserted by POST /api/employees.
NewEmployeeRow(email, body) ==
    [email |-> toLowerCase(trim(email)),
     cl_balance |-> normalizeLeaveBalance(OrDefault(body.cl_balance, DefaultCL)),
     rh_balance |-> normalizeLeaveBalance(OrDefault(body.rh_balance, DefaultRH)),
     el_balance |-> normalizeLeaveBalance(OrDefault(body.el_balance, DefaultEL))]

\* Rows matched by the duplicate check of POST /api/employees.
Duplicates(employee_id, email) ==
    { e \in DOMAIN employees :
        \/ toLowerCase(e) = toLowerCase(trim(employee_id))
        \/ toLowerCase(employees[e].email) = toLowerCase(trim(email)) }

\* The UNIQUE constraints of the employees table (exact comparison).
UniqueViolation(id, email, except) ==
    \E e \in DOMAIN employees \ except : e = id \/ employees[e].email = email

CreateEmployeeOutcome(employee_id, profileOk, email, body) ==
    IF ~validateEmployeeId(employee_id) THEN "InvalidEmployeeId"
    ELSE IF ~profileOk THEN "FieldRequired"
    ELSE IF ~validateEmail(email) THEN "InvalidEmail"
    ELSE IF Duplicates(employee_id, email) # {} THEN "Conflict"
    ELSE IF UniqueViolation(sanitizeInput(trim(employee_id)),
                            toLowerCase(trim(email)), {}) THEN "InternalError"
    ELSE "Created"

\* POST /api/employees.  profileOk: full_name, department, position and
\* hire_date are all present.
CreateEmployee(employee_id, profileOk, email, body) ==
    /\ Quiet
    /\ \E outcome \in { CreateEmployeeOutcome(employee_id, profileOk, email, body) } :
       LET id == sanitizeInput(trim(employee_id))
       IN /\ last' = Response("CreateEmployee", outcome)
          /\ employees' =
                IF outcome = "Created"
                THEN [e \in DOMAIN employees \cup {id} |->
                        IF e = id THEN NewEmployeeRow(email, body) ELSE employees[e]]
                ELSE employees
    /\ UNCHANGED <<leaves, nextLeaveId, docs, nextDoc, txn, sweep, calls,
                   notifications, nextNotificationId>>

\* A field of the update body that is present is written, normalized.
Patched(old, v) == IF v.kind = "undefined" THEN old ELSE normalizeLeaveBalance(v)

\* The row written by PUT /api/employees/:employeeId.
UpdatedEmployeeRow(row, emailGiven, email, body) ==
    [email |-> IF emailGiven THEN toLowerCase(trim(email)) ELSE row.email,
     cl_balance |-> Patched(row.cl_balance, body.cl_balance),
     rh_balance |-> Patched(row.rh_balance, body.rh_balance),
     el_balance |-> Patched(row.el_balance, body.el_balance)]

NoBalanceGiven(body) ==
    /\ body.cl_balance.kind = "undefined"
    /\ body.rh_balance.kind = "undefined"
    /\ body.el_balance.kind = "undefined"

UpdateEmployeeOutcome(employeeId, emailGiven, email, otherGiven, body) ==
    IF ~validateEmployeeId(employeeId) THEN "InvalidEmployeeId"
    ELSE IF MatchLower(trim(employeeId)) = {} THEN "NotFound"
    ELSE IF emailGiven /\ ~validateEmail(email) THEN "InvalidEmail"
    ELSE IF ~emailGiven /\ ~otherGiven /\ NoBalanceGiven(body) THEN "NoFields"
    ELSE IF emailGiven /\ UniqueViolation(<<>>, toLowerCase(trim(email)),
                                          MatchLower(trim(employeeId)))
         THEN "InternalError"
    ELSE "OK"

\* PUT /api/employees/:employeeId.  otherGiven: one of full_name, department,
\* position, is_admin is present in the body.
UpdateEmployee(employeeId, emailGiven, email, otherGiven, body) ==
    /\ Quiet
    /\ \E outcome \in { UpdateEmployeeOutcome(employeeId, emailGiven, email,
                                              otherGiven, body) } :
       LET hit == MatchLower(trim(employeeId))
       IN /\ last' = Response("UpdateEmployee", outcome)
          /\ employees' =
                IF outcome = "OK"
                THEN [e \in DOMAIN employees |->
                        IF e \in hit
                        THEN UpdatedEmployeeRow(employees[e], emailGiven, email, body)
                        ELSE employees[e]]
                ELSE employees
    /\ UNCHANGED <<leaves, nextLeaveId, docs, nextDoc, txn, sweep, calls,
                   notifications, nextNotificationId>>

\* Cascade for a foreign key without ON DELETE CASCADE that is not enforced.
CascadeNone(gone) == DOMAIN leaves

\* The leaves left by ON DELETE CASCADE once the rows `gone` are deleted.
Cascade(gone) == { l \in DOMAIN leaves : leaves[l].employee_id \notin gone }

\* The notifications left by ON DELETE CASCADE once the rows `gone` are
\* deleted; a broadcast notification has no user_id.
CascadeNotifications(gone) ==
    { n \in DOMAIN notifications : notifications[n].user_id \notin gone }

\* DELETE /api/employees/:employeeId.
DeleteEmployee(employeeId) ==
    /\ Quiet
    /\ LET hit == IF validateEmployeeId(employeeId)
                  THEN MatchLower(trim(employeeId)) ELSE {}
           outcome == IF ~validateEmployeeId(employeeId) THEN "InvalidEmployeeId"
                      ELSE IF hit = {} THEN "NotFound" ELSE "OK"
       IN /\ last' = Response("DeleteEmployee", outcome)
          /\ employees' = [e \in DOMAIN employees \ hit |-> employees[e]]
          /\ leaves' = [l \in Cascade(hit) |-> leaves[l]]
          /\ notifications' = [n \in CascadeNotifications(hit) |-> notifications[n]]
    /\ UNCHANGED <<nextLeaveId, docs, nextDoc, txn, sweep, calls, nextNotificationId>>

\* normalizeEmployeeBalances, run to completion with no store failure:
\* the row is looked up by exact employee_id.
NormalizeOutcome(employeeId) ==
    IF employeeId \in DOMAIN employees THEN "OK" ELSE "NotFound"

\* The checks of POST /api/employees/:employeeId/fix-balances: the route
\* finds the row ignoring case, the normalizer by exact employee_id.
FixBalancesOutcome(employeeId) ==
    IF ~validateEmployeeId(employeeId) THEN "InvalidEmployeeId"
    ELSE IF MatchLower(trim(employeeId)) = {} THEN "NotFound"
    ELSE IF NormalizeOutcome(trim(employeeId)) # "OK" THEN "InternalError"
    ELSE "OK"

\* POST /api/employees/:employeeId/fix-balances.
FixBalances(employeeId) ==
    /\ Quiet
    /\ \E outcome \in { FixBalancesOutcome(employeeId) } :
       LET id == trim(employeeId)
       IN /\ employees' = IF outcome = "OK" THEN NormalizeAll(employees, {id})
                          ELSE employees
          /\ last' = [op |-> "FixBalances", outcome |-> outcome,
                      emp |-> IF outcome = "OK" THEN id ELSE <<>>,
                      ret |-> IF outcome = "OK"
                              THEN Triple(NormalizedBalances(employees[id]))
                              ELSE NoRet]
    /\ UNCHANGED <<leaves, nextLeaveId, docs, nextDoc, txn, sweep, calls,
                   notifications, nextNotificationId>>

\* checkDataIntegrity run to completion: the rows with a negative balance are
\* normalized, then the rows the second query finds.
SweptTable(emps) ==
    LET first == NormalizeAll(emps, NegativeRows(emps))
    IN NormalizeAll(first, HighRows(first))

CheckDataIntegrity ==
    /\ Quiet
    /\ employees' = SweptTable(employees)
    /\ last' = Response("checkDataIntegrity", "OK")
    /\ UNCHANGED <<leaves, nextLeaveId, docs, nextDoc, txn, sweep, calls,
                   notifications, nextNotificationId>>

\* --------------------------------------- GET /api/system/health (server.js)

\* The thresholds of the highBalances query of the health route.
HealthHighCL == 30
HealthHighRH == 15
HealthHighEL == 30

\* The dataIntegrity part of the health response.
HealthReport(emps, lvs) ==
    LET negativeBalances ==
            Cardinality({ e \in DOMAIN emps :
                \/ emps[e].cl_balance < 0
                \/ emps[e].rh_balance < 0
                \/ emps[e].el_balance < 0 })
        highBalances ==
            Cardinality({ e \in DOMAIN emps :
                \/ emps[e].cl_balance > HealthHighCL
                \/ emps[e].rh_balance > HealthHighRH
                \/ emps[e].el_balance > HealthHighEL })
    IN [totalEmployees |-> Cardinality(DOMAIN emps),
        totalLeaves |-> Cardinality(DOMAIN lvs),
        negativeBalances |-> negativeBalances,
        highBalances |-> highBalances,
        needsAttention |-> negativeBalances > 0 \/ highBalances > 0]

SystemHealth ==
    /\ Quiet
    /\ last' = [op |-> "SystemHealth", outcome |-> "OK", emp |-> <<>>,
                ret |-> HealthReport(employees, leaves)]
    /\ UNCHANGED <<employees, leaves, nextLeaveId, docs, nextDoc, txn, sweep, calls,
                   notifications, nextNotificationId>>
\* ------------------------------- normalizeEmployeeBalances, statement by
\* ------------------------------- statement, and checkDataIntegrity around it

\* A statement of the open transaction fails: ROLLBACK, and the error is
\* rethrown.  Thrown inside checkDataIntegrity it ends the sweep, whose
\* catch logs it.
Thrown(outcome) ==
    /\ txn' = NoTxn
    /\ IF txn.by = "sweep"
       THEN /\ sweep' = NoSweep
            /\ last' = Response("checkDataIntegrity", "Error")
       ELSE /\ sweep' = sweep
            /\ last' = Response("normalizeEmployeeBalances", outcome)
    /\ UNCHANGED <<employees, leaves, nextLeaveId, docs, nextDoc, calls,
                   notifications, nextNotificationId>>

\* pool.connect() and BEGIN.
NormBegin(employeeId) ==
    /\ Quiet
    /\ txn' = [pc |-> "begun", emp |-> employeeId, row |-> NoBalanceRow, by |-> "call"]
    /\ UNCHANGED <<employees, leaves, nextLeaveId, docs, nextDoc, last, sweep, calls,
                   notifications, nextNotificationId>>

\* SELECT cl_balance, rh_balance, el_balance ... WHERE employee_id = $1;
\* no row: throw 'Employee not found'.
NormSelect ==
    /\ txn.pc = "begun"
    /\ IF txn.emp \in DOMAIN employees
       THEN /\ txn' = [txn EXCEPT !.pc = "read",
                                  !.row = [cl_balance |-> employees[txn.emp].cl_balance,
                                           rh_balance |-> employees[txn.emp].rh_balance,
                                           el_balance |-> employees[txn.emp].el_balance]]
            /\ UNCHANGED <<employees, leaves, nextLeaveId, docs, nextDoc, last, sweep, calls,
                           notifications, nextNotificationId>>
       ELSE Thrown("NotFound")

\* NormUpdate outside any transaction, one column at a time: cl_balance is
\* already written when the statement can still fail.
NormUpdateAutocommit ==
    /\ txn.pc = "read"
    /\ txn' = [txn EXCEPT !.pc = "written", !.row = NormalizedBalances(txn.row)]
    /\ employees' = [employees EXCEPT
                        ![txn.emp].cl_balance = NormalizedBalances(txn.row).cl_balance]
    /\ UNCHANGED <<leaves, nextLeaveId, docs, nextDoc, last, sweep, calls,
                   notifications, nextNotificationId>>

\* UPDATE employees SET ... inside the transaction: the new values are
\* pending, other connections still read the old row.
NormUpdate ==
    /\ txn.pc = "read"
    /\ txn' = [txn EXCEPT !.pc = "written", !.row = NormalizedBalances(txn.row)]
    /\ UNCHANGED <<employees, leaves, nextLeaveId, docs, nextDoc, last, sweep, calls,
                   notifications, nextNotificationId>>

\* COMMIT: the pending values become the row; the triple is returned.
NormCommit ==
    /\ txn.pc = "written"
    /\ employees' = [employees EXCEPT ![txn.emp] = WithBalances(@, txn.row)]
    /\ txn' = NoTxn
    /\ last' = IF txn.by = "call"
               THEN [op |-> "normalizeEmployeeBalances", outcome |-> "OK",
                     emp |-> txn.emp, ret |-> Triple(txn.row)]
               ELSE last
    /\ UNCHANGED <<leaves, nextLeaveId, docs, nextDoc, sweep, calls,
                   notifications, nextNotificationId>>

\* The store fails the SELECT, the UPDATE or the COMMIT.
NormFail ==
    /\ txn.pc \in {"begun", "read", "written"}
    /\ Thrown("InternalError")

\* checkDataIntegrity: the first query.
SweepStart ==
    /\ Quiet
    /\ sweep' = [pc |-> "negative", todo |-> NegativeRows(employees)]
    /\ UNCHANGED <<employees, leaves, nextLeaveId, docs, nextDoc, last, txn, calls,
                   notifications, nextNotificationId>>

\* The next row of the running loop is handed to normalizeEmployeeBalances.
SweepNormalize ==
    /\ sweep.pc \in {"negative", "high"}
    /\ txn.pc = "idle"
    /\ \E e \in sweep.todo :
        /\ sweep' = [sweep EXCEPT !.todo = @ \ {e}]
        /\ txn' = [pc |-> "begun", emp |-> e, row |-> NoBalanceRow, by |-> "sweep"]
    /\ UNCHANGED <<employees, leaves, nextLeaveId, docs, nextDoc, last, calls,
                   notifications, nextNotificationId>>

\* SweepHigh leaving the first loop before its rows are exhausted.
SweepHighEarly ==
    /\ sweep.pc = "negative"
    /\ txn.pc = "idle"
    /\ sweep' = [pc |-> "high", todo |-> HighRows(employees)]
    /\ UNCHANGED <<employees, leaves, nextLeaveId, docs, nextDoc, last, txn, calls,
                   notifications, nextNotificationId>>

\* The first loop is over: the second query.
SweepHigh ==
    /\ sweep.pc = "negative"
    /\ sweep.todo = {}
    /\ txn.pc = "idle"
    /\ sweep' = [pc |-> "high", todo |-> HighRows(employees)]
    /\ UNCHANGED <<employees, leaves, nextLeaveId, docs, nextDoc, last, txn, calls,
                   notifications, nextNotificationId>>

\* The second loop is over: 'Data integrity check completed'.
SweepDone ==
    /\ sweep.pc = "high"
    /\ sweep.todo = {}
    /\ txn.pc = "idle"
    /\ sweep' = NoSweep
    /\ last' = Response("checkDataIntegrity", "OK")
    /\ UNCHANGED <<employees, leaves, nextLeaveId, docs, nextDoc, txn, calls,
                   notifications, nextNotificationId>>

\* ------------------------------------------------------------- leave routes

\* OverlapClause without its third clause.
OverlapClauseTwo(row, start_date, end_date) ==
    \/ (row.start_date <= start_date /\ row.end_date >= start_date)
    \/ (row.start_date <= end_date /\ row.end_date >= end_date)

\* The three-clause predicate of the overlap query: a stored row against the
\* requested range [$2, $3].
OverlapClause(row, start_date, end_date) ==
    \/ (row.start_date <= start_date /\ row.end_date >= start_date)
    \/ (row.start_date <= end_date /\ row.end_date >= end_date)
    \/ (row.start_date >= start_date /\ row.end_date <= end_date)

\* Rows returned by the overlap query (employee_id compared exactly).
overlappingLeaves(employee_id, start_date, end_date) ==
    { l \in DOMAIN leaves :
        /\ leaves[l].employee_id = employee_id
        /\ leaves[l].status # REJECTED
        /\ OverlapClause(leaves[l], start_date, end_date) }

\* The balance check of POST /api/leaves: the column is named after the
\* leave type as the request spells it.
InsufficientBalance(employee, leave_type, days) ==
    LessThan(Field(employee, toLowerCase(leave_type)), days)

\* The checks of POST /api/leaves, in the order of the handler.
CreateLeaveOutcome(employee_id, leave_type, start_date, end_date, reason) ==
    IF ~validateEmployeeId(employee_id) THEN "InvalidEmployeeId"
    ELSE IF ~validateLeaveType(leave_type) THEN "InvalidLeaveType"
    ELSE IF start_date = NoDate \/ end_date = NoDate THEN "DatesRequired"
    ELSE IF ~validateDateRange(start_date, end_date) THEN "InvalidDateRange"
    ELSE IF reason = <<>> \/ trim(reason) = <<>> THEN "ReasonRequired"
    ELSE IF MatchLower(trim(employee_id)) = {} THEN "NotFound"
    ELSE LET employee == employees[CHOOSE e \in MatchLower(trim(employee_id)) : TRUE]
             days == calculateLeaveDays(start_date, end_date)
         IN IF ~validateLeaveDays(days, leave_type) THEN "DaysExceedLimit"
            ELSE IF InsufficientBalance(employee, leave_type, days)
                 THEN "InsufficientBalance"
            ELSE IF overlappingLeaves(trim(employee_id), start_date, end_date) # {}
                 THEN "OverlapConflict"
            \* FOREIGN KEY (employee_id) REFERENCES employees(employee_id)
            ELSE IF trim(employee_id) \notin DOMAIN employees THEN "InternalError"
            ELSE "Created"

\* The row of POST /api/leaves without the path of the uploaded document.
NewLeaveRowNoDocument(employee_id, leave_type, start_date, end_date, reason, documentPath) ==
    [employee_id |-> trim(employee_id),
     leave_type |-> normalizeLeaveType(leave_type),
     start_date |-> start_date,
     end_date |-> end_date,
     days |-> calculateLeaveDays(start_date, end_date),
     reason |-> sanitizeInput(trim(reason)),
     status |-> PENDING,
     approved_by |-> <<>>,
     approved_at |-> "NULL",
     document_path |-> NoDoc]
\* The row inserted by POST /api/leaves.
NewLeaveRow(employee_id, leave_type, start_date, end_date, reason, documentPath) ==
    [employee_id |-> trim(employee_id),
     leave_type |-> normalizeLeaveType(leave_type),
     start_date |-> start_date,
     end_date |-> end_date,
     days |-> calculateLeaveDays(start_date, end_date),
     reason |-> sanitizeInput(trim(reason)),
     status |-> PENDING,
     approved_by |-> <<>>,
     approved_at |-> "NULL",
     document_path |-> documentPath]

\* POST /api/leaves.  hasFile: the request carries a `document` part, which
\* the upload middleware writes to disk before the handler runs.
CreateLeave(employee_id, leave_type, start_date, end_date, reason, hasFile) ==
    /\ Quiet
    /\ hasFile => nextDoc <= MaxDocs
    /\ \E outcome \in { CreateLeaveOutcome(employee_id, leave_type, start_date,
                                           end_date, reason) } :
       LET documentPath == IF hasFile THEN nextDoc ELSE NoDoc
       IN /\ outcome = "Created" => nextLeaveId <= MaxLeaves
          /\ docs' = IF hasFile THEN docs \cup {nextDoc} ELSE docs
          /\ nextDoc' = IF hasFile THEN nextDoc + 1 ELSE nextDoc
          /\ last' = Response("CreateLeave", outcome)
          /\ IF outcome = "Created"
             THEN /\ leaves' =
                        [l \in DOMAIN leaves \cup {nextLeaveId} |->
                            IF l = nextLeaveId
                            THEN NewLeaveRow(employee_id, leave_type, start_date,
                                             end_date, reason, documentPath)
                            ELSE leaves[l]]
                  /\ nextLeaveId' = nextLeaveId + 1
             ELSE UNCHANGED <<leaves, nextLeaveId>>
    /\ UNCHANGED <<employees, txn, sweep, calls,
                   notifications, nextNotificationId>>

\* The employee columns the status handler puts after "e." in its lookup.
LeaveLookupColumns(status) ==
    IF status = APPROVED THEN <<"cl_balance", "rh_balance", "el_balance">> ELSE <<>>

\* "SELECT l.*, e.<columns> FROM leaves l JOIN ..." is a statement only when a
\* column follows "e."; otherwise the store rejects it with a syntax error.
LookupParses(columns) == columns # <<>>

\* SetStatusOutcome with a check of the balance before an approval.
SetStatusOutcomeRechecked(leaveId, status, approved_by) ==
    IF status \notin {APPROVED, REJECTED} THEN "InvalidStatus"
    ELSE IF approved_by = <<>> THEN "ApproverRequired"
    ELSE IF ~LookupParses(LeaveLookupColumns(status)) THEN "InternalError"
    ELSE IF leaveId \notin DOMAIN leaves THEN "NotFound"
    ELSE IF leaves[leaveId].status # PENDING THEN "InvalidTransition"
    ELSE IF /\ status = APPROVED
            /\ Field(employees[leaves[leaveId].employee_id],
                     toLowerCase(leaves[leaveId].leave_type)).val
                 < leaves[leaveId].days
         THEN "InsufficientBalance"
    ELSE "OK"
\* The checks of PUT /api/leaves/:leaveId/status, in the order of the handler.
SetStatusOutcome(leaveId, status, approved_by) ==
    IF status \notin {APPROVED, REJECTED} THEN "InvalidStatus"
    ELSE IF approved_by = <<>> THEN "ApproverRequired"
    ELSE IF ~LookupParses(LeaveLookupColumns(status)) THEN "InternalError"
    ELSE IF leaveId \notin DOMAIN leaves THEN "NotFound"
    ELSE IF leaves[leaveId].status # PENDING THEN "InvalidTransition"
    ELSE "OK"

\* Deducted, with the new balance always computed from cl_balance.
DeductedFromCL(leave) ==
    LET balanceField == toLowerCase(leave.leave_type)
        joined == employees[leave.employee_id]
        newBalance == joined.cl_balance - leave.days
    IN [e \in DOMAIN employees |->
            IF e = leave.employee_id
            THEN SetField(employees[e], balanceField, newBalance)
            ELSE employees[e]]

\* The employees table after the deduction of an approval.
Deducted(leave) ==
    LET balanceField == toLowerCase(leave.leave_type)
        joined == employees[leave.employee_id]
        newBalance == Field(joined, balanceField).val - leave.days
    IN [e \in DOMAIN employees |->
            IF e = leave.employee_id
            THEN SetField(employees[e], balanceField, newBalance)
            ELSE employees[e]]

\* PUT /api/leaves/:leaveId/status.
SetStatus(leaveId, status, approved_by) ==
    /\ Quiet
    /\ \E outcome \in { SetStatusOutcome(leaveId, status, approved_by) } :
          /\ last' = Response("SetStatus", outcome)
          /\ IF outcome = "OK"
             THEN /\ leaves' = [leaves EXCEPT ![leaveId].status = status,
                                              ![leaveId].approved_by = approved_by,
                                              ![leaveId].approved_at = "CURRENT_TIMESTAMP"]
                  /\ employees' = IF status = APPROVED THEN Deducted(leaves[leaveId])
                                  ELSE employees
             ELSE UNCHANGED <<leaves, employees>>
    /\ UNCHANGED <<nextLeaveId, docs, nextDoc, txn, sweep, calls,
                   notifications, nextNotificationId>>

\* DeleteLeaveOutcome without the pending check.
DeleteLeaveOutcomeAny(leaveId) ==
    IF leaveId \notin DOMAIN leaves THEN "NotFound" ELSE "OK"

\* The checks of DELETE /api/leaves/:leaveId.
DeleteLeaveOutcome(leaveId) ==
    IF leaveId \notin DOMAIN leaves THEN "NotFound"
    ELSE IF leaves[leaveId].status # PENDING THEN "InvalidState"
    ELSE "OK"

\* DELETE /api/leaves/:leaveId.
DeleteLeave(leaveId) ==
    /\ Quiet
    /\ \E outcome \in { DeleteLeaveOutcome(leaveId) } :
          /\ last' = Response("DeleteLeave", outcome)
          /\ IF outcome = "OK"
             THEN /\ docs' = docs \ {leaves[leaveId].document_path}
                  /\ leaves' = [l \in DOMAIN leaves \ {leaveId} |-> leaves[l]]
             ELSE UNCHANGED <<leaves, docs>>
    /\ UNCHANGED <<employees, nextLeaveId, nextDoc, txn, sweep, calls,
                   notifications, nextNotificationId>>

\* ------------------------------------------------------ notification routes

\* The checks of POST /api/notifications; an absent user_id (<<>>) makes a
\* broadcast notification.  contentOk: type and message are present.
CreateNotificationOutcome(contentOk, user_id) ==
    IF ~contentOk THEN "FieldRequired"
    ELSE IF user_id # <<>> /\ ~validateEmployeeId(user_id) THEN "InvalidUserId"
    \* FOREIGN KEY (user_id) REFERENCES employees(employee_id)
    ELSE IF user_id # <<>> /\ trim(user_id) \notin DOMAIN employees THEN "InternalError"
    ELSE "Created"

\* POST /api/notifications.
CreateNotification(contentOk, user_id) ==
    /\ Quiet
    /\ \E outcome \in { CreateNotificationOutcome(contentOk, user_id) } :
          /\ outcome = "Created" => nextNotificationId <= MaxNotifications
          /\ last' = Response("CreateNotification", outcome)
          /\ IF outcome = "Created"
             THEN /\ notifications' =
                        [n \in DOMAIN notifications \cup {nextNotificationId} |->
                            IF n = nextNotificationId
                            THEN [user_id |-> trim(user_id), is_read |-> FALSE]
                            ELSE notifications[n]]
                  /\ nextNotificationId' = nextNotificationId + 1
             ELSE UNCHANGED <<notifications, nextNotificationId>>
    /\ UNCHANGED <<employees, leaves, nextLeaveId, docs, nextDoc, txn, sweep, calls>>

\* DELETE /api/notifications/:notificationId.
DeleteNotification(notificationId) ==
    /\ Quiet
    /\ last' = Response("DeleteNotification",
                        IF notificationId \in DOMAIN notifications THEN "OK"
                        ELSE "NotFound")
    /\ notifications' = [n \in DOMAIN notifications \ {notificationId} |->
                            notifications[n]]
    /\ UNCHANGED <<employees, leaves, nextLeaveId, docs, nextDoc, txn, sweep, calls,
                   nextNotificationId>>

\* ------------------------- PUT /api/leaves/:leaveId/status, statement by
\* ------------------------- statement: each pool.query commits on its own

\* The handler responds and gives its connection back.
Responds(c, op, outcome) ==
    /\ calls' = [calls EXCEPT ![c] = NoCall]
    /\ last' = Response(op, outcome)

\* A statement of the handler on connection c is refused by the store: the
\* catch answers 500; what was written before stays written.
HandlerFail(c) ==
    /\ calls[c].op # "idle"
    /\ Responds(c, calls[c].op, "InternalError")
    /\ UNCHANGED <<employees, leaves, nextLeaveId, docs, nextDoc, txn, sweep,
                   notifications, nextNotificationId>>

\* The row of an employee is locked by the UPDATE of an open transaction
\* until its COMMIT or ROLLBACK.
RowLocked(e) == txn.pc = "written" /\ txn.emp = e

\* The body checks and the lookup: leave.* joined with the three balances.
StatusLookup(c, leaveId, status, approved_by) ==
    /\ calls[c].op = "idle"
    /\ \E outcome \in { SetStatusOutcome(leaveId, status, approved_by) } :
          IF outcome = "OK"
          THEN /\ calls' = [calls EXCEPT ![c] =
                    [op |-> "SetStatus", pc |-> "found",
                     req |-> [leaveId |-> leaveId, status |-> status,
                              approved_by |-> approved_by],
                     seen |-> [leave |-> leaves[leaveId],
                               joined |-> employees[leaves[leaveId].employee_id]]]]
               /\ last' = last
          ELSE Responds(c, "SetStatus", outcome)
    /\ UNCHANGED <<employees, leaves, nextLeaveId, docs, nextDoc, txn, sweep,
                   notifications, nextNotificationId>>

\* UPDATE leaves SET status = $1, approved_by = $2, approved_at = ... WHERE
\* id = $3; a rejection responds right after it.
StatusWrite(c) ==
    /\ calls[c].op = "SetStatus" /\ calls[c].pc = "found"
    /\ LET req == calls[c].req
       IN /\ leaves' = IF req.leaveId \in DOMAIN leaves
                        THEN [leaves EXCEPT ![req.leaveId].status = req.status,
                                            ![req.leaveId].approved_by = req.approved_by,
                                            ![req.leaveId].approved_at = "CURRENT_TIMESTAMP"]
                        ELSE leaves
          /\ IF req.status = APPROVED
             THEN /\ calls' = [calls EXCEPT ![c].pc = "marked"]
                  /\ last' = last
             ELSE Responds(c, "SetStatus", "OK")
    /\ UNCHANGED <<employees, nextLeaveId, docs, nextDoc, txn, sweep,
                   notifications, nextNotificationId>>

\* The new balance taken from the stored row when the UPDATE runs.
NewBalanceRelative(seen) ==
    Field(employees[seen.leave.employee_id],
          toLowerCase(seen.leave.leave_type)).val - seen.leave.days
\* newBalance = leave[balanceField] - leave.days, from the row the lookup
\* returned.
NewBalance(seen) ==
    Field(seen.joined, toLowerCase(seen.leave.leave_type)).val - seen.leave.days

\* UPDATE employees SET <balanceField> = $1 WHERE employee_id = $2, and the
\* response.  The statement waits while the row is locked.
BalanceWrite(c) ==
    /\ calls[c].op = "SetStatus" /\ calls[c].pc = "marked"
    /\ LET seen == calls[c].seen
           e == seen.leave.employee_id
       IN /\ ~RowLocked(e)
          /\ employees' =
                IF e \in DOMAIN employees
                THEN [employees EXCEPT
                        ![e] = SetField(@, toLowerCase(seen.leave.leave_type),
                                        NewBalance(seen))]
                ELSE employees
    /\ Responds(c, "SetStatus", "OK")
    /\ UNCHANGED <<leaves, nextLeaveId, docs, nextDoc, txn, sweep,
                   notifications, nextNotificationId>>

\* ------------------- DELETE /api/leaves/:leaveId, its lookup and its DELETE apart

\* The lookup, the pending check and the removal of the document file.
DeleteLookup(c, leaveId) ==
    /\ calls[c].op = "idle"
    /\ \E outcome \in { DeleteLeaveOutcome(leaveId) } :
          IF outcome = "OK"
          THEN /\ calls' = [calls EXCEPT ![c] =
                    [op |-> "DeleteLeave", pc |-> "checked",
                     req |-> [leaveId |-> leaveId],
                     seen |-> [leave |-> leaves[leaveId]]]]
               /\ docs' = docs \ {leaves[leaveId].document_path}
               /\ last' = last
          ELSE /\ Responds(c, "DeleteLeave", outcome)
               /\ docs' = docs
    /\ UNCHANGED <<employees, leaves, nextLeaveId, nextDoc, txn, sweep,
                   notifications, nextNotificationId>>

\* DELETE FROM leaves WHERE id = $1, and the response.
DeleteWrite(c) ==
    /\ calls[c].op = "DeleteLeave" /\ calls[c].pc = "checked"
    /\ leaves' = [l \in DOMAIN leaves \ {calls[c].req.leaveId} |-> leaves[l]]
    /\ Responds(c, "DeleteLeave", "OK")
    /\ UNCHANGED <<employees, nextLeaveId, docs, nextDoc, txn, sweep,
                   notifications, nextNotificationId>>
\* ------------------- POST /api/leaves, its reads and its INSERT apart

\* The checks of the handler up to the overlap query, on what the store
\* holds when they run; the upload middleware has written the file.
LeaveChecks(c, req) ==
    /\ calls[c].op = "idle"
    /\ req.hasFile => nextDoc <= MaxDocs
    /\ docs' = IF req.hasFile THEN docs \cup {nextDoc} ELSE docs
    /\ nextDoc' = IF req.hasFile THEN nextDoc + 1 ELSE nextDoc
    /\ \E outcome \in { CreateLeaveOutcome(req.employee_id, req.leave_type,
                                           req.start_date, req.end_date, req.reason) } :
          IF outcome \in {"Created", "InternalError"}
          THEN /\ calls' = [calls EXCEPT ![c] =
                    [op |-> "CreateLeave", pc |-> "checked", req |-> req,
                     seen |-> IF req.hasFile THEN nextDoc ELSE NoDoc]]
               /\ last' = last
          ELSE Responds(c, "CreateLeave", outcome)
    /\ UNCHANGED <<employees, leaves, nextLeaveId, txn, sweep, notifications, nextNotificationId>>

\* LeaveInsert behind a constraint that excludes overlapping ranges of one
\* employee: the INSERT is refused when the range has been taken meanwhile.
LeaveInsertExcluding(c) ==
    /\ calls[c].op = "CreateLeave" /\ calls[c].pc = "checked"
    /\ LET req == calls[c].req
       IN IF /\ trim(req.employee_id) \in DOMAIN employees
             /\ overlappingLeaves(trim(req.employee_id), req.start_date,
                                  req.end_date) = {}
          THEN /\ nextLeaveId <= MaxLeaves
               /\ leaves' =
                    [l \in DOMAIN leaves \cup {nextLeaveId} |->
                        IF l = nextLeaveId
                        THEN NewLeaveRow(req.employee_id, req.leave_type, req.start_date,
                                         req.end_date, req.reason, calls[c].seen)
                        ELSE leaves[l]]
               /\ nextLeaveId' = nextLeaveId + 1
               /\ Responds(c, "CreateLeave", "Created")
          ELSE /\ UNCHANGED <<leaves, nextLeaveId>>
               /\ Responds(c, "CreateLeave", "InternalError")
    /\ UNCHANGED <<employees, docs, nextDoc, txn, sweep, notifications, nextNotificationId>>

\* INSERT INTO leaves ... RETURNING *, and the response: the row is refused
\* only by the foreign key on employee_id.
LeaveInsert(c) ==
    /\ calls[c].op = "CreateLeave" /\ calls[c].pc = "checked"
    /\ LET req == calls[c].req
       IN IF trim(req.employee_id) \in DOMAIN employees
          THEN /\ nextLeaveId <= MaxLeaves
               /\ leaves' =
                    [l \in DOMAIN leaves \cup {nextLeaveId} |->
                        IF l = nextLeaveId
                        THEN NewLeaveRow(req.employee_id, req.leave_type, req.start_date,
                                         req.end_date, req.reason, calls[c].seen)
                        ELSE leaves[l]]
               /\ nextLeaveId' = nextLeaveId + 1
               /\ Responds(c, "CreateLeave", "Created")
          ELSE /\ UNCHANGED <<leaves, nextLeaveId>>
               /\ Responds(c, "CreateLeave", "InternalError")
    /\ UNCHANGED <<employees, docs, nextDoc, txn, sweep, notifications, nextNotificationId>>

\* ------------- POST /api/employees, its duplicate check and its INSERT apart

\* The validation and the duplicate check, on what the store holds when
\* they run.
EmployeeChecks(c, req) ==
    /\ calls[c].op = "idle"
    /\ \E outcome \in { CreateEmployeeOutcome(req.employee_id, req.profileOk,
                                              req.email, req.body) } :
          IF outcome \in {"Created", "InternalError"}
          THEN /\ calls' = [calls EXCEPT ![c] =
                    [op |-> "CreateEmployee", pc |-> "checked", req |-> req,
                     seen |-> <<>>]]
               /\ last' = last
          ELSE Responds(c, "CreateEmployee", outcome)
    /\ UNCHANGED <<employees, leaves, nextLeaveId, docs, nextDoc, txn, sweep,
                   notifications, nextNotificationId>>

\* INSERT INTO employees ... RETURNING *, and the response: the row is
\* refused only by the UNIQUE constraints, which compare exactly.
EmployeeInsert(c) ==
    /\ calls[c].op = "CreateEmployee" /\ calls[c].pc = "checked"
    /\ LET req == calls[c].req
           id == sanitizeInput(trim(req.employee_id))
       IN IF UniqueViolation(id, toLowerCase(trim(req.email)), {})
          THEN /\ employees' = employees
               /\ Responds(c, "CreateEmployee", "InternalError")
          ELSE /\ employees' =
                    [e \in DOMAIN employees \cup {id} |->
                        IF e = id THEN NewEmployeeRow(req.email, req.body)
                        ELSE employees[e]]
               /\ Responds(c, "CreateEmployee", "Created")
    /\ UNCHANGED <<leaves, nextLeaveId, docs, nextDoc, txn, sweep,
                   notifications, nextNotificationId>>

\* ------------------------------------------------------------------ inputs

GoodEmail == <<"x", "@", "a", ".", "b">>
OtherEmail == <<"y", "@", "a", ".", "b">>
BadEmail == <<"x">>
GoodReason == <<"r">>
Approver == <<"b">>

NoBalances == [cl_balance |-> Undefined, rh_balance |-> Undefined, el_balance |-> Undefined]
AllBalances(v) == [cl_balance |-> v, rh_balance |-> v, el_balance |-> v]

\* The [start, end] pairs validateDateRange accepts.
ValidRanges == { r \in (Today..MaxDay) \X (Today..MaxDay) : r[1] <= r[2] }

LeaveRequest(id, type, range, reason, hasFile) ==
    [employee_id |-> id, leave_type |-> type, start_date |-> range[1],
     end_date |-> range[2], reason |-> reason, hasFile |-> hasFile]

\* Create-leave requests that pass the request validation: every type and
\* range for employee a, with a document for type CL, and the other
\* spellings of a type and of the identifier.
LeaveRequests ==
    { LeaveRequest(<<"a">>, t, r, GoodReason, FALSE) : t \in LeaveTypes, r \in ValidRanges }
    \cup { LeaveRequest(<<"a">>, CL, r, GoodReason, TRUE) : r \in ValidRanges }
    \cup { LeaveRequest(<<"a">>, t, r, GoodReason, FALSE) :
        t \in { <<"c", "l">>, <<"c", "l", " ">>, <<" ", "E", "L">> }, r \in ValidRanges }
    \cup { LeaveRequest(i, CL, r, GoodReason, FALSE) :
        i \in { <<"A">>, <<"a", " ">> }, r \in ValidRanges }

ReqLeaveIds == 1..MaxLeaves

SomeCreateLeave ==
    \E r \in LeaveRequests :
        CreateLeave(r.employee_id, r.leave_type, r.start_date, r.end_date,
                    r.reason, r.hasFile)
SomeSetStatus == \E l \in ReqLeaveIds, st \in {APPROVED, REJECTED} : SetStatus(l, st, Approver)
SomeDeleteLeave == \E l \in ReqLeaveIds : DeleteLeave(l)

\* ------------------------------------------- specification: leave lifecycle

\* Employees a and b exist, a created with the default balances or with
\* small ones; requests are served one at a time.
SmallBalance == 2
LifecycleEmployees ==
    { [e \in { <<"a">>, <<"b">> } |->
          IF e = <<"a">> THEN NewEmployeeRow(GoodEmail, ba)
          ELSE NewEmployeeRow(OtherEmail, NoBalances)] :
        ba \in { NoBalances, AllBalances(Num(SmallBalance)) } }

InitLifecycle ==
    /\ employees \in LifecycleEmployees
    /\ leaves = <<>>
    /\ nextLeaveId = 1
    /\ docs = {}
    /\ nextDoc = 1
    /\ last = Response("none", "none")
    /\ txn = NoTxn
    /\ sweep = NoSweep
    /\ calls = NoCalls
    /\ notifications = <<>>
    /\ nextNotificationId = 1

NextLifecycle ==
    \/ SomeCreateLeave
    \/ SomeSetStatus
    \/ SomeDeleteLeave
    \/ DeleteEmployee(<<"A">>)

SpecLifecycle == InitLifecycle /\ [][NextLifecycle]_vars

\* ------------------------------------------- specification: the normalizer

Around(n) == (n - Slack)..(n + Slack)
StoredCL == Around(0) \cup Around(CapCL) \cup Around(HighCL)
StoredRH == Around(0) \cup Around(CapRH) \cup Around(HighRH)
StoredEL == Around(0) \cup Around(CapEL) \cup Around(HighEL)

BalanceRow(email, cl, rh, el) ==
    [email |-> email, cl_balance |-> cl, rh_balance |-> rh, el_balance |-> el]

\* Employee a holds any triple of stored balances near 0, a cap or a
\* threshold; employee b holds the defaults, a negative or an excessive one.
NormEmployees ==
    { [e \in { <<"a">>, <<"b">> } |-> IF e = <<"a">> THEN ra ELSE rb] :
        ra \in { BalanceRow(GoodEmail, cl, rh, el) :
                    cl \in StoredCL, rh \in StoredRH, el \in StoredEL },
        rb \in { BalanceRow(OtherEmail, DefaultCL, DefaultRH, DefaultEL),
                 BalanceRow(OtherEmail, 0 - Slack, DefaultRH, DefaultEL),
                 BalanceRow(OtherEmail, DefaultCL, DefaultRH, HighEL + Slack) } }

InitNorm ==
    /\ employees \in NormEmployees
    /\ leaves = <<>>
    /\ nextLeaveId = 1
    /\ docs = {}
    /\ nextDoc = 1
    /\ last = Response("none", "none")
    /\ txn = NoTxn
    /\ sweep = NoSweep
    /\ calls = NoCalls
    /\ notifications = <<>>
    /\ nextNotificationId = 1

NextNorm ==
    \/ \E id \in { <<"a">>, <<"b">>, <<"A">> } : NormBegin(id)
    \/ NormSelect
    \/ NormUpdate
    \/ NormCommit
    \/ NormFail
    \/ SweepStart
    \/ SweepNormalize
    \/ SweepHigh
    \/ SweepDone

SpecNorm == InitNorm /\ [][NextNorm]_vars

\* ------------------------------------------ specification: the health report

\* The stored balances of the normalizer's specification; the health route
\* and the integrity sweep are called one at a time.
NextHealth ==
    \/ SystemHealth
    \/ CheckDataIntegrity

SpecHealth == InitNorm /\ [][NextHealth]_vars
\* ------------------------------ specification: approvals, write by write

\* Employee a, created with the default balances, holds two PENDING leaves on
\* disjoint ranges, of any types; status requests run statement by
\* statement on the connections of the pool, and any statement can fail.
PendingLeave(type, range) ==
    NewLeaveRow(<<"a">>, type, range[1], range[2], GoodReason, NoDoc)

ApprovalLeaves ==
    { [l \in 1..2 |-> IF l = 1 THEN PendingLeave(t1, r1)
                                ELSE PendingLeave(t2, <<MaxDay, MaxDay>>)] :
        t1 \in LeaveTypes, t2 \in LeaveTypes,
        r1 \in { r \in ValidRanges : r[2] < MaxDay } }

InitApproval ==
    /\ employees = [e \in { <<"a">> } |-> NewEmployeeRow(GoodEmail, NoBalances)]
    /\ leaves \in ApprovalLeaves
    /\ nextLeaveId = 3
    /\ docs = {}
    /\ nextDoc = 1
    /\ last = Response("none", "none")
    /\ txn = NoTxn
    /\ sweep = NoSweep
    /\ calls = NoCalls
    /\ notifications = <<>>
    /\ nextNotificationId = 1

SomeStatusLookup ==
    \E c \in Conns, l \in 1..2, st \in {APPROVED, REJECTED} :
        StatusLookup(c, l, st, Approver)

NextApproval ==
    \/ SomeStatusLookup
    \/ \E c \in Conns : StatusWrite(c)
    \/ \E c \in Conns : BalanceWrite(c)
    \/ \E c \in Conns : HandlerFail(c)

SpecApproval == InitApproval /\ [][NextApproval]_vars

\* ------------------------------------ specification: approvals in parallel

\* The store of the approvals; status requests run statement by statement on
\* the connections of the pool, no statement fails, and nothing else writes.
NextConcurrent ==
    \/ SomeStatusLookup
    \/ \E c \in Conns : StatusWrite(c)
    \/ \E c \in Conns : BalanceWrite(c)

SpecConcurrent == InitApproval /\ [][NextConcurrent]_vars
\* ------------------------- specification: approvals and deletions in parallel

\* The store of the approvals; status requests and delete requests run
\* statement by statement on the connections of the pool; no statement fails.
NextWithdraw ==
    \/ SomeStatusLookup
    \/ \E c \in Conns : StatusWrite(c)
    \/ \E c \in Conns : BalanceWrite(c)
    \/ \E c \in Conns, l \in 1..2 : DeleteLookup(c, l)
    \/ \E c \in Conns : DeleteWrite(c)

SpecWithdraw == InitApproval /\ [][NextWithdraw]_vars
\* ------------------- specification: approvals racing with the normalizer

\* The same store; no statement of a status request fails, and
\* normalizeEmployeeBalances runs for employee a at any time.
NextRace ==
    \/ SomeStatusLookup
    \/ \E c \in Conns : StatusWrite(c)
    \/ \E c \in Conns : BalanceWrite(c)
    \/ NormBegin(<<"a">>)
    \/ NormSelect
    \/ NormUpdate
    \/ NormCommit

SpecRace == InitApproval /\ [][NextRace]_vars

\* ------------------------------ specification: leave requests in parallel

\* Employees a and b exist; create-leave requests for a, of type CL over
\* every range, one of them with a document, are handled on the connections
\* of the pool, the reads of one between the reads and the INSERT of another.
ParallelRequests ==
    { LeaveRequest(<<"a">>, CL, r, GoodReason, FALSE) : r \in ValidRanges }
    \cup { LeaveRequest(<<"a">>, RH, <<Today, MaxDay>>, GoodReason, TRUE) }

NextParallel ==
    \/ \E c \in Conns, r \in ParallelRequests : LeaveChecks(c, r)
    \/ \E c \in Conns : LeaveInsert(c)
    \/ SomeDeleteLeave

SpecParallel == InitLifecycle /\ [][NextParallel]_vars

\* ------------------------------- specification: employees and what they own

\* Employees a and b exist; leaves and notifications are created for them
\* and deleted, and the employees are deleted and a is created again.
OwnedRequests ==
    { LeaveRequest(id, CL, r, GoodReason, FALSE) :
        id \in { <<"a">>, <<"b">>, <<"A">> },
        r \in { <<Today, Today>>, <<MaxDay, MaxDay>> } }

NextOwnership ==
    \/ \E r \in OwnedRequests :
            CreateLeave(r.employee_id, r.leave_type, r.start_date, r.end_date,
                        r.reason, r.hasFile)
    \/ \E l \in ReqLeaveIds : SetStatus(l, APPROVED, Approver)
    \/ SomeDeleteLeave
    \/ \E ok \in BOOLEAN, u \in { <<>>, <<"a">>, <<"b">>, <<"A">>, <<" ">> } :
            CreateNotification(ok, u)
    \/ \E n \in 1..MaxNotifications : DeleteNotification(n)
    \/ \E id \in { <<"A">>, <<"b">> } : DeleteEmployee(id)
    \/ CreateEmployee(<<"a">>, TRUE, GoodEmail, NoBalances)

SpecOwnership == InitLifecycle /\ [][NextOwnership]_vars

\* --------------------------------- specification: the validation helpers

\* A helper of utils/validation is applied to arguments; its arguments and
\* its result are kept as the last response.
Applied(helper, outcome, ret) ==
    [op |-> helper, outcome |-> outcome, emp |-> <<>>, ret |-> ret]

Boolean(b) == IF b THEN "true" ELSE "false"

ApplyValidateLeaveDays(days, leaveType) ==
    /\ last' = Applied("validateLeaveDays",
                       Boolean(validateLeaveDays(days, leaveType)),
                       <<days, leaveType>>)
    /\ UNCHANGED <<employees, leaves, nextLeaveId, docs, nextDoc, txn, sweep, calls,
                   notifications, nextNotificationId>>

ApplyCalculateLeaveDays(startDate, endDate) ==
    /\ last' = Applied("calculateLeaveDays", "OK",
                       <<startDate, endDate, calculateLeaveDays(startDate, endDate)>>)
    /\ UNCHANGED <<employees, leaves, nextLeaveId, docs, nextDoc, txn, sweep, calls,
                   notifications, nextNotificationId>>

ApplyValidateLeaveType(type) ==
    /\ last' = Applied("validateLeaveType", Boolean(validateLeaveType(type)),
                       <<type>>)
    /\ UNCHANGED <<employees, leaves, nextLeaveId, docs, nextDoc, txn, sweep, calls,
                   notifications, nextNotificationId>>

ApplyNormalizeLeaveType(type) ==
    /\ last' = Applied("normalizeLeaveType", "OK",
                       <<type, normalizeLeaveType(type)>>)
    /\ UNCHANGED <<employees, leaves, nextLeaveId, docs, nextDoc, txn, sweep, calls,
                   notifications, nextNotificationId>>

\* Spellings of a leave type as a request carries them: the canonical ones,
\* lower case, padded with blanks, a blank inside, an unknown type, a blank
\* alone, and none at all (here <<>>).
TypeTexts ==
    LeaveTypes \cup
    { <<"c", "l">>, <<"c", "l", " ">>, <<" ", "E", "L">>, <<" ", "r", "H", " ">>,
      <<"c", " ", "l">>, <<"S", "I", "C", "K">>, <<"C">>, <<" ">>, <<>> }

\* Create-leave requests of employee a with the type spelled in other ways.
SpelledRequests ==
    { LeaveRequest(<<"a">>, <<" ", "E", "L">>, <<Today, Today>>, GoodReason, FALSE),
      LeaveRequest(<<"a">>, <<"c", " ", "l">>, <<Today, Today>>, GoodReason, FALSE) }
\* The helpers on every small argument, and create-leave requests of
\* employee a, whose day count calculateLeaveDays computes.
NextValidation ==
    \/ \E days \in 0..MaxDaysTried, t \in LeaveTypes \cup { <<"c", "l">> } :
            ApplyValidateLeaveDays(days, t)
    \/ \E s \in 0..MaxDay, e \in 0..MaxDay : ApplyCalculateLeaveDays(s, e)
    \/ \E t \in TypeTexts : ApplyValidateLeaveType(t)
    \/ \E t \in TypeTexts : ApplyNormalizeLeaveType(t)
    \/ \E r \in ParallelRequests \cup SpelledRequests :
            CreateLeave(r.employee_id, r.leave_type, r.start_date, r.end_date,
                        r.reason, r.hasFile)

SpecValidation == InitLifecycle /\ [][NextValidation]_vars

\* ---------------------------------------------- specification: the service

\* One create-leave request per validation failure.
DefectRequests ==
    { LeaveRequest(<<" ">>, CL, <<Today, Today>>, GoodReason, FALSE),
      LeaveRequest(<<"a">>, <<"S", "I", "C", "K">>, <<Today, Today>>, GoodReason, FALSE),
      LeaveRequest(<<"a">>, <<>>, <<Today, Today>>, GoodReason, FALSE),
      LeaveRequest(<<"a">>, CL, <<NoDate, Today>>, GoodReason, FALSE),
      LeaveRequest(<<"a">>, CL, <<0, Today>>, GoodReason, FALSE),
      LeaveRequest(<<"a">>, CL, <<MaxDay, Today>>, GoodReason, FALSE),
      LeaveRequest(<<"a">>, CL, <<Today, Today>>, <<" ">>, FALSE) }

\* Create-leave requests of the service: type CL over the ranges that touch
\* the first or the last day, and one request of each other type, one of
\* them with a document.
ServiceRequests ==
    { LeaveRequest(<<"a">>, CL, r, GoodReason, FALSE) :
        r \in { v \in ValidRanges : v[1] = Today \/ v[2] = MaxDay } }
    \cup { LeaveRequest(<<"a">>, RH, <<Today, Today>>, GoodReason, FALSE),
           LeaveRequest(<<"A">>, EL, <<MaxDay, MaxDay>>, GoodReason, FALSE),
           LeaveRequest(<<"a">>, <<"e", "l", " ">>, <<Today, MaxDay>>, GoodReason, TRUE) }
    \cup DefectRequests

\* Balance fields of an employee body: absent, or all three given.
OverBalance == 31
ReqBalanceBodies ==
    { NoBalances,
      [cl_balance |-> Null, rh_balance |-> Num(0 - 1), el_balance |-> Num(0)],
      AllBalances(Num(SmallBalance)),
      AllBalances(Num(OverBalance)) }

\* Update-employee bodies: <<emailGiven, email, otherGiven, balances>>.
ReqUpdates ==
    { <<FALSE, GoodEmail, FALSE, NoBalances>>,
      <<FALSE, GoodEmail, TRUE, NoBalances>>,
      <<TRUE, BadEmail, FALSE, NoBalances>>,
      <<TRUE, GoodEmail, FALSE, NoBalances>> }
    \cup { <<FALSE, GoodEmail, FALSE, b>> : b \in ReqBalanceBodies \ {NoBalances} }

Init ==
    /\ employees = <<>>
    /\ leaves = <<>>
    /\ nextLeaveId = 1
    /\ docs = {}
    /\ nextDoc = 1
    /\ last = Response("none", "none")
    /\ txn = NoTxn
    /\ sweep = NoSweep
    /\ calls = NoCalls
    /\ notifications = <<>>
    /\ nextNotificationId = 1

Next ==
    \/ \E id \in { <<"a">>, <<" ">> }, ok \in BOOLEAN,
          email \in { GoodEmail, BadEmail }, body \in ReqBalanceBodies :
            CreateEmployee(id, ok, email, body)
    \/ \E id \in { <<"A">>, <<" ">> }, u \in ReqUpdates :
            UpdateEmployee(id, u[1], u[2], u[3], u[4])
    \/ \E id \in { <<"A">>, <<" ">> } : DeleteEmployee(id)
    \/ \E id \in { <<"a">>, <<"A">>, <<" ">> } : FixBalances(id)
    \/ CheckDataIntegrity
    \/ \E r \in ServiceRequests :
            CreateLeave(r.employee_id, r.leave_type, r.start_date, r.end_date,
                        r.reason, r.hasFile)
    \/ \E l \in ReqLeaveIds, st \in { APPROVED, REJECTED, PENDING },
          a \in { Approver, <<>> } : SetStatus(l, st, a)
    \/ SomeDeleteLeave

Spec == Init /\ [][Next]_vars

\* --------------------------- specification: employee creations in parallel

\* On an empty store, create-employee requests that spell the identifier
\* and the e-mail address in either case are handled on the connections of
\* the pool, and employees are deleted.
UpperEmail == <<"X", "@", "a", ".", "b">>

EmployeeRequests ==
    { [employee_id |-> id, profileOk |-> TRUE, email |-> email, body |-> NoBalances] :
        id \in { <<"a">>, <<"A">> }, email \in { GoodEmail, UpperEmail, OtherEmail } }

NextRegistration ==
    \/ \E c \in Conns, r \in EmployeeRequests : EmployeeChecks(c, r)
    \/ \E c \in Conns : EmployeeInsert(c)
    \/ DeleteEmployee(<<"a">>)

SpecRegistration == Init /\ [][NextRegistration]_vars

\* -------------------------------------------------------------- properties

\* The balance of a leave type in an employee row.
BalanceOf(row, type) ==
    IF type = CL THEN row.cl_balance
    ELSE IF type = RH THEN row.rh_balance
    ELSE row.el_balance

Terminal(l) == l \in DOMAIN leaves /\ leaves[l].status \in {APPROVED, REJECTED}
Pending(l) == l \in DOMAIN leaves /\ leaves[l].status = PENDING

\* C1: approving an existing PENDING leave of type T with d days, whose
\* employee holds b days of T, leaves it APPROVED with the approver and the
\* approval timestamp set, balance[T] = b - d, and the employee's other two
\* balances unchanged.
C1_ApproveDeducts ==
    [][\A l \in ReqLeaveIds :
        (Pending(l) /\ SetStatus(l, APPROVED, Approver)) =>
            LET e == leaves[l].employee_id
                T == leaves[l].leave_type
            IN /\ last'.outcome = "OK"
               /\ leaves'[l].status = APPROVED
               /\ leaves'[l].approved_by = Approver
               /\ leaves'[l].approved_at # "NULL"
               /\ BalanceOf(employees'[e], T) = BalanceOf(employees[e], T) - leaves[l].days
               /\ \A U \in LeaveTypes \ {T} :
                    BalanceOf(employees'[e], U) = BalanceOf(employees[e], U)]_vars

\* A 3-day RH leave of employee a has been approved: 15 - 3 days remain.
C1_Witness ==
    /\ last.op = "SetStatus" /\ last.outcome = "OK"
    /\ \E l \in DOMAIN leaves :
        /\ leaves[l].status = APPROVED /\ leaves[l].leave_type = RH
        /\ leaves[l].days = 3 /\ leaves[l].approved_by = Approver
        /\ employees[leaves[l].employee_id].rh_balance = 12
        /\ employees[leaves[l].employee_id].cl_balance = 30

\* C2: rejecting an existing PENDING leave, approver given, succeeds: the
\* leave becomes REJECTED with approver and approval timestamp recorded, and
\* no employee balance changes.
C2_RejectSucceeds ==
    [][\A l \in ReqLeaveIds :
        (Pending(l) /\ SetStatus(l, REJECTED, Approver)) =>
            /\ last'.outcome = "OK"
            /\ leaves'[l].status = REJECTED
            /\ leaves'[l].approved_by = Approver
            /\ leaves'[l].approved_at # "NULL"
            /\ employees' = employees]_vars

\* C3: once a leave is APPROVED or REJECTED, every later SetStatus on it
\* fails with InvalidTransition and every later Delete with InvalidState,
\* and the failed call changes neither the leaves nor any balance.
C3_TerminalRefusesAll ==
    [][\A l \in ReqLeaveIds :
        /\ \A st \in {APPROVED, REJECTED} :
            (Terminal(l) /\ SetStatus(l, st, Approver)) =>
                /\ last'.outcome = "InvalidTransition"
                /\ leaves' = leaves /\ employees' = employees
        /\ (Terminal(l) /\ DeleteLeave(l)) =>
                /\ last'.outcome = "InvalidState"
                /\ leaves' = leaves /\ employees' = employees]_vars

\* C4: a Create whose leave type validateLeaveType accepts (any case, any
\* surrounding blanks) and whose employee exists fails with
\* InsufficientBalance, persisting nothing, when the employee's balance of
\* that type is below the requested day count.
C4_InsufficientBalanceRefused ==
    [][\A r \in LeaveRequests :
        ( /\ validateLeaveType(r.leave_type)
          /\ \E e \in DOMAIN employees :
                /\ toLowerCase(e) = toLowerCase(trim(r.employee_id))
                /\ BalanceOf(employees[e], trim(toUpperCase(r.leave_type)))
                      < (r.end_date - r.start_date) + 1
          /\ CreateLeave(r.employee_id, r.leave_type, r.start_date, r.end_date,
                         r.reason, r.hasFile) ) =>
            /\ last'.outcome = "InsufficientBalance"
            /\ leaves' = leaves]_vars

\* C5: no two leaves of one employee that are both PENDING or APPROVED have
\* date ranges that share a day.
C5_NoOverlap ==
    \A l1 \in DOMAIN leaves, l2 \in DOMAIN leaves :
        ( /\ l1 # l2
          /\ leaves[l1].employee_id = leaves[l2].employee_id
          /\ leaves[l1].status \in {PENDING, APPROVED}
          /\ leaves[l2].status \in {PENDING, APPROVED} ) =>
            ~(\E d \in 0..MaxDay :
                /\ leaves[l1].start_date <= d /\ d <= leaves[l1].end_date
                /\ leaves[l2].start_date <= d /\ d <= leaves[l2].end_date)

\* Two leaves of one employee are live side by side, on adjacent ranges, and
\* the last Create, which overlapped them, was refused.
C5_Witness ==
    /\ last.op = "CreateLeave" /\ last.outcome = "OverlapConflict"
    /\ \E l1 \in DOMAIN leaves, l2 \in DOMAIN leaves :
        /\ leaves[l1].employee_id = leaves[l2].employee_id
        /\ leaves[l1].status = APPROVED /\ leaves[l2].status = PENDING
        /\ leaves[l1].end_date + 1 = leaves[l2].start_date

\* C6: every balance of every employee lies in [0, cap], cap CL 30, RH 15,
\* EL 18, in every reachable state.
C6_BalancesInRange ==
    \A e \in DOMAIN employees :
        /\ 0 <= employees[e].cl_balance /\ employees[e].cl_balance <= 30
        /\ 0 <= employees[e].rh_balance /\ employees[e].rh_balance <= 15
        /\ 0 <= employees[e].el_balance /\ employees[e].el_balance <= 18

\* C7: a completed normalizeEmployeeBalances call on an existing employee
\* stores and returns min(30, max(0, cl)), min(15, max(0, rh)),
\* min(18, max(0, el)); repeated with no other call in between it returns
\* the same triple and changes nothing.
C7_NormalizeClamps ==
    [][(NormCommit /\ txn.by = "call") =>
        LET old == employees[txn.emp]
            new == employees'[txn.emp]
        IN /\ new.cl_balance = Min(30, Max(0, old.cl_balance))
           /\ new.rh_balance = Min(15, Max(0, old.rh_balance))
           /\ new.el_balance = Min(18, Max(0, old.el_balance))
           /\ last'.outcome = "OK"
           /\ last'.ret = <<new.cl_balance, new.rh_balance, new.el_balance>>
           /\ ( ( /\ last.op = "normalizeEmployeeBalances"
                  /\ last.outcome = "OK"
                  /\ last.emp = txn.emp ) =>
                    (employees' = employees /\ last'.ret = last.ret) )]_vars

\* Employee a has been normalized to <<0, 15, 18>> and a second call for a
\* has read the row and is about to write it.
C7_Witness ==
    /\ last.op = "normalizeEmployeeBalances" /\ last.outcome = "OK"
    /\ last.emp = <<"a">> /\ last.ret = <<0, 15, 18>>
    /\ txn.pc = "written" /\ txn.by = "call" /\ txn.emp = <<"a">>

\* C8: normalizeEmployeeBalances is all-or-nothing.  An unknown identifier
\* fails with NotFound, a failed statement rolls back; either way every
\* stored balance keeps its prior value, and the table only ever changes by
\* one employee's three balances taking their normalized values together.
C8_NormalizeAtomic ==
    [][/\ (employees' # employees) =>
            /\ txn.pc = "written" /\ txn'.pc = "idle"
            /\ \A e \in DOMAIN employees \ {txn.emp} : employees'[e] = employees[e]
            /\ DOMAIN employees' = DOMAIN employees
            /\ employees'[txn.emp].cl_balance = Min(30, Max(0, employees[txn.emp].cl_balance))
            /\ employees'[txn.emp].rh_balance = Min(15, Max(0, employees[txn.emp].rh_balance))
            /\ employees'[txn.emp].el_balance = Min(18, Max(0, employees[txn.emp].el_balance))
       /\ (txn.pc = "begun" /\ txn.emp \notin DOMAIN employees /\ NormSelect) =>
            /\ last'.outcome = "NotFound" /\ txn' = NoTxn /\ employees' = employees
       /\ NormFail =>
            /\ last'.outcome \in {"InternalError", "Error"}
            /\ txn' = NoTxn /\ employees' = employees]_vars

\* A call failed in the store and employee a still holds its out-of-range
\* balances.
C8_Witness ==
    /\ last.op = "normalizeEmployeeBalances" /\ last.outcome = "InternalError"
    /\ txn = NoTxn
    /\ employees[<<"a">>].cl_balance < 0 /\ employees[<<"a">>].el_balance > 18

\* C9: Delete on an APPROVED or REJECTED leave fails with InvalidState and
\* removes nothing; Delete on a PENDING leave removes the record and its
\* document; neither changes a balance.
C9_DeleteOnlyPending ==
    [][\A l \in ReqLeaveIds :
        ((l \in DOMAIN leaves) /\ DeleteLeave(l)) =>
            /\ employees' = employees
            /\ IF leaves[l].status = PENDING
               THEN /\ last'.outcome = "OK"
                    /\ DOMAIN leaves' = DOMAIN leaves \ {l}
                    /\ \A k \in DOMAIN leaves' : leaves'[k] = leaves[k]
                    /\ leaves[l].document_path \notin docs'
                    /\ docs' = docs \ {leaves[l].document_path}
               ELSE /\ last'.outcome = "InvalidState"
                    /\ leaves' = leaves
                    /\ docs' = docs]_vars

\* A Delete of an APPROVED leave, which holds a document, has been refused.
C9_Witness ==
    /\ last.op = "DeleteLeave" /\ last.outcome = "InvalidState"
    /\ \E l \in DOMAIN leaves :
        /\ leaves[l].status = APPROVED
        /\ leaves[l].document_path # NoDoc /\ leaves[l].document_path \in docs

\* C10: after a completed integrity sweep every balance of every employee
\* lies in [0, cap], cap CL 30, RH 15, EL 18.
C10_SweepNormalizesAll ==
    (last.op = "checkDataIntegrity" /\ last.outcome = "OK") =>
        \A e \in DOMAIN employees :
            /\ 0 <= employees[e].cl_balance /\ employees[e].cl_balance <= 30
            /\ 0 <= employees[e].rh_balance /\ employees[e].rh_balance <= 15
            /\ 0 <= employees[e].el_balance /\ employees[e].el_balance <= 18

\* A store of two employees, one with cl_balance = -5 and one with
\* el_balance = 50.
SweepExample ==
    [e \in { <<"a">>, <<"b">> } |->
        IF e = <<"a">> THEN [email |-> GoodEmail, cl_balance |-> -5,
                             rh_balance |-> 15, el_balance |-> 18]
        ELSE [email |-> OtherEmail, cl_balance |-> 30,
              rh_balance |-> 15, el_balance |-> 50]]

\* C11: a sweep that runs right after a completed sweep, with no write in
\* between, changes no balance; a sweep corrects a cl_balance of -5 to 0 and
\* an el_balance of 50 to 18, and a second sweep changes nothing.
C11_SweepIdempotent ==
    [][/\ ( /\ last.op = "checkDataIntegrity" /\ last.outcome = "OK"
            /\ sweep.pc # "idle" ) => employees' = employees
       /\ SweptTable(SweptTable(employees)) = SweptTable(employees)
       /\ SweptTable(SweptTable(SweepExample)) = SweptTable(SweepExample)
       /\ SweptTable(SweepExample)[<<"a">>].cl_balance = 0
       /\ SweptTable(SweepExample)[<<"b">>].el_balance = 18]_vars

\* A second sweep has gone through both of its loops after a completed
\* first one, and both employees hold balances within the sweep's thresholds.
C11_Witness ==
    /\ last.op = "checkDataIntegrity" /\ last.outcome = "OK"
    /\ sweep.pc = "high" /\ sweep.todo = {} /\ txn.pc = "idle"
    /\ employees[<<"a">>].cl_balance = 0
    /\ employees[<<"b">>].el_balance = 18

\* The days of the APPROVED leaves of type T that employee e holds.
RECURSIVE ApprovedDaysUpTo(_, _, _)
ApprovedDaysUpTo(n, e, T) ==
    IF n = 0 THEN 0
    ELSE ApprovedDaysUpTo(n - 1, e, T)
         + IF /\ n \in DOMAIN leaves
              /\ leaves[n].employee_id = e
              /\ leaves[n].leave_type = T
              /\ leaves[n].status = APPROVED
           THEN leaves[n].days ELSE 0
ApprovedDays(e, T) == ApprovedDaysUpTo(nextLeaveId - 1, e, T)

\* Employee a, created with 30 / 15 / 18 days, holds of every type what is
\* left once the days of its APPROVED leaves of that type are deducted.
DeductedAll ==
    /\ employees[<<"a">>].cl_balance = 30 - ApprovedDays(<<"a">>, CL)
    /\ employees[<<"a">>].rh_balance = 15 - ApprovedDays(<<"a">>, RH)
    /\ employees[<<"a">>].el_balance = 18 - ApprovedDays(<<"a">>, EL)

NoneInFlight == \A c \in Conns : calls[c].op = "idle"

\* C12: the status write and the balance deduction of an approval are one
\* atomic unit: once no status request is in flight, whether it ended well or
\* in a store failure, every APPROVED leave has its days deducted from the
\* balance of its employee.
C12_ApprovalAtomic ==
    NoneInFlight => DeductedAll

\* C13: normalizeEmployeeBalances never loses an update: once the approvals
\* and the normalizer runs that interleaved are over, the balances are those
\* of running them one after the other, which for balances that start at
\* 30 / 15 / 18 is the start less the days of the APPROVED leaves, in any
\* order.  Stated for the runs in which the approvals of one leave at most
\* took part, so that no two deductions race with each other.
C13_NoLostUpdate ==
    ( /\ NoneInFlight /\ txn.pc = "idle"
      /\ Cardinality({ l \in DOMAIN leaves : leaves[l].status = APPROVED }) <= 1 )
        => DeductedAll

\* Two leaves share a day.
SharesDay(r1, r2) == r1.start_date <= r2.end_date /\ r2.start_date <= r1.end_date

\* C14: nothing but the handler's own reads stands between a create-leave
\* request and its row: a request that has passed its balance and overlap
\* checks is persisted by its INSERT whatever has been inserted since, so
\* that two requests of one employee for overlapping ranges that both
\* passed the checks are both persisted as PENDING.
C14_ParallelCreatesOverlap ==
    [][\A c \in Conns :
        ( /\ calls[c].op = "CreateLeave" /\ calls[c].pc = "checked"
          /\ trim(calls[c].req.employee_id) \in DOMAIN employees
          /\ LeaveInsert(c) ) =>
            /\ last'.outcome = "Created"
            /\ nextLeaveId \in DOMAIN leaves'
            /\ leaves'[nextLeaveId].status = PENDING
            /\ leaves'[nextLeaveId].start_date = calls[c].req.start_date
            /\ leaves'[nextLeaveId].end_date = calls[c].req.end_date
            /\ \A l \in DOMAIN leaves : leaves'[l] = leaves[l]]_vars

\* Two PENDING leaves of one employee share a day.
C14_Witness ==
    \E l1 \in DOMAIN leaves, l2 \in DOMAIN leaves :
        /\ l1 # l2
        /\ leaves[l1].employee_id = leaves[l2].employee_id
        /\ leaves[l1].status = PENDING /\ leaves[l2].status = PENDING
        /\ SharesDay(leaves[l1], leaves[l2])

\* C15: an employee identifier resolves regardless of letter case in every
\* operation that takes one: fix-balances and leave Create answer a request
\* that spells the identifier in upper case as they answer the same request
\* spelling it in lower case.
C15_IdsIgnoreCase ==
    \A id \in { <<"a">> } :
        /\ FixBalancesOutcome(toUpperCase(id)) = FixBalancesOutcome(id)
        /\ \A r \in ValidRanges, t \in LeaveTypes :
              CreateLeaveOutcome(toUpperCase(id), t, r[1], r[2], GoodReason)
                = CreateLeaveOutcome(id, t, r[1], r[2], GoodReason)

\* C16: no two employees have identifiers that are equal ignoring case, and
\* no two have the same e-mail address ignoring case, also when employee
\* creations are handled at the same time.
C16_EmployeesUnique ==
    \A e1 \in DOMAIN employees, e2 \in DOMAIN employees :
        e1 # e2 =>
            /\ toLowerCase(e1) # toLowerCase(e2)
            /\ toLowerCase(employees[e1].email) # toLowerCase(employees[e2].email)

\* C17: deleting an employee removes every leave and every notification
\* that references it: the employee of each leave exists, and so does the
\* employee of each notification that is not a broadcast.
C17_OwnersExist ==
    /\ \A l \in DOMAIN leaves : leaves[l].employee_id \in DOMAIN employees
    /\ \A n \in DOMAIN notifications :
          notifications[n].user_id # <<>> =>
              notifications[n].user_id \in DOMAIN employees

\* Employee a has just been deleted after leaves and notifications were
\* created; what is left belongs to employee b or is a broadcast.
C17_Witness ==
    /\ last.op = "DeleteEmployee" /\ last.outcome = "OK"
    /\ <<"a">> \notin DOMAIN employees
    /\ nextLeaveId = 3 /\ nextNotificationId = 3
    /\ \E l \in DOMAIN leaves : leaves[l].employee_id = <<"b">>
    /\ \E n \in DOMAIN notifications : notifications[n].user_id = <<>>
    /\ Cardinality(DOMAIN leaves) = 1 /\ Cardinality(DOMAIN notifications) = 1

\* The three balances of every employee of a table.
Balances(emps) ==
    [e \in DOMAIN emps |->
        <<emps[e].cl_balance, emps[e].rh_balance, emps[e].el_balance>>]

\* C18: once an employee is created its balances are changed by approval
\* and by normalization only: updating an employee, leave Create, a refused
\* or rejecting SetStatus and leave Delete leave every stored balance as it
\* was.
C18_BalanceFrame ==
    [][ ( \/ \E id \in { <<"A">>, <<" ">> }, u \in ReqUpdates :
                UpdateEmployee(id, u[1], u[2], u[3], u[4])
          \/ \E r \in ServiceRequests :
                CreateLeave(r.employee_id, r.leave_type, r.start_date, r.end_date,
                            r.reason, r.hasFile)
          \/ \E l \in ReqLeaveIds, a \in { Approver, <<>> } : SetStatus(l, REJECTED, a)
          \/ SomeDeleteLeave )
        => Balances(employees') = Balances(employees) ]_vars

\* The cap of a leave type on the days of one request.
DaysCap(type) == IF type = CL THEN 30 ELSE IF type = RH THEN 15 ELSE 60

\* C19: validateLeaveDays(days, type) fails when days < 1 or when days
\* exceeds the cap of the type (CL 30, RH 15, EL 60), and succeeds otherwise.
C19_DaysCapEnforced ==
    (last.op = "validateLeaveDays" /\ last.ret[2] \in LeaveTypes) =>
        ( last.outcome = "true"
            <=> (last.ret[1] >= 1 /\ last.ret[1] <= DaysCap(last.ret[2])) )

\* C20: calculateLeaveDays(s, e) is e - s + 1 when e >= s and 1 when e < s,
\* and every persisted leave has a day count of at least 1 that is the
\* inclusive length of its range.
C20_InclusiveDays ==
    /\ last.op = "calculateLeaveDays" =>
          last.ret[3] = IF last.ret[2] >= last.ret[1]
                        THEN last.ret[2] - last.ret[1] + 1 ELSE 1
    /\ \A l \in DOMAIN leaves :
          /\ leaves[l].days >= 1
          /\ leaves[l].days = leaves[l].end_date - leaves[l].start_date + 1

\* A leave over three days is stored with 3 days, and calculateLeaveDays has
\* just answered 1 for an end before the start.
C20_Witness ==
    /\ last.op = "calculateLeaveDays" /\ last.ret = <<3, 1, 1>>
    /\ \E l \in DOMAIN leaves :
          /\ leaves[l].start_date = 1 /\ leaves[l].end_date = 3
          /\ leaves[l].days = 3

\* text spells the type T: blanks, the letters of T in either case, blanks.
Spells(text, T) ==
    \E i \in 1..Len(text) :
        /\ i + Len(T) - 1 <= Len(text)
        /\ \A k \in 1..Len(text) :
              IF k < i \/ k > i + Len(T) - 1 THEN text[k] = " "
              ELSE toUpperCase(<<text[k]>>) = <<T[k - i + 1]>>

\* C21: validateLeaveType(t) is true exactly when t, trimmed and uppercased,
\* is CL, RH or EL; normalizeLeaveType(t) returns that canonical type exactly
\* then and null otherwise; every persisted leave stores a canonical type.
C21_TypesCanonical ==
    /\ last.op = "validateLeaveType" =>
          ( last.outcome = "true"
              <=> \E T \in {CL, RH, EL} : Spells(last.ret[1], T) )
    /\ last.op = "normalizeLeaveType" =>
          /\ \A T \in {CL, RH, EL} : Spells(last.ret[1], T) => last.ret[2] = T
          /\ validateLeaveType(last.ret[1]) <=> last.ret[2] \in {CL, RH, EL}
          /\ ~validateLeaveType(last.ret[1]) <=> last.ret[2] = <<>>
    /\ \A l \in DOMAIN leaves : leaves[l].leave_type \in {CL, RH, EL}

\* validateLeaveType has just accepted 'cl ', and a leave requested as ' EL'
\* is stored as EL.
C21_Witness ==
    /\ last.op = "validateLeaveType"
    /\ last.ret = << <<"c", "l", " ">> >>
    /\ last.outcome = "true"
    /\ \E l \in DOMAIN leaves : leaves[l].leave_type = EL

\* The inclusive ranges [s1, e1] and [s2, e2] share a day.
Intersect(s1, e1, s2, e2) == s1 <= e2 /\ s2 <= e1

\* The non-REJECTED leaves of the employee a request names, whatever the
\* case of the identifier, that share a day with the requested range.
Conflicting(r) ==
    { l \in DOMAIN leaves :
        /\ toLowerCase(leaves[l].employee_id) = toLowerCase(trim(r.employee_id))
        /\ leaves[l].status # REJECTED
        /\ Intersect(leaves[l].start_date, leaves[l].end_date,
                     r.start_date, r.end_date) }

\* C22: the three-clause overlap predicate is the inclusive-interval test
\* s1 <= e2 and s2 <= e1, and a Create that passes the checks before the
\* overlap check fails with OverlapConflict exactly when some leave of that
\* employee whose status is not REJECTED shares a day with the request.
C22_OverlapInclusive ==
    /\ \A l \in DOMAIN leaves, v \in ValidRanges :
          OverlapClause(leaves[l], v[1], v[2])
            <=> Intersect(leaves[l].start_date, leaves[l].end_date, v[1], v[2])
    /\ \A r \in LeaveRequests :
          CreateLeaveOutcome(r.employee_id, r.leave_type, r.start_date,
                             r.end_date, r.reason)
                \in {"OverlapConflict", "InternalError", "Created"}
          => ( CreateLeaveOutcome(r.employee_id, r.leave_type, r.start_date,
                                  r.end_date, r.reason) = "OverlapConflict"
                 <=> Conflicting(r) # {} )

\* C23: a successful Create adds exactly one leave record, PENDING, with no
\* approver, with the inclusive day count of its range and with the
\* reference of the document if one was supplied; it changes no existing
\* leave and no balance.
C23_CreateAddsOnePending ==
    [][ ( /\ last'.op = "CreateLeave"
          /\ last'.outcome = "Created" )
        => /\ \E n \in DOMAIN leaves' \ DOMAIN leaves :
                /\ DOMAIN leaves' = DOMAIN leaves \cup {n}
                /\ leaves'[n].status = PENDING
                /\ leaves'[n].approved_by = <<>>
                /\ leaves'[n].days
                      = leaves'[n].end_date - leaves'[n].start_date + 1
                \* a document came with the request: docs grows by it
                /\ IF docs' # docs
                   THEN /\ leaves'[n].document_path # NoDoc
                        /\ docs' = docs \cup {leaves'[n].document_path}
                   ELSE leaves'[n].document_path = NoDoc
           /\ \A l \in DOMAIN leaves : leaves'[l] = leaves[l]
           /\ employees' = employees ]_vars

\* A second leave has just been created, with a document, next to a first.
C23_Witness ==
    /\ last.op = "CreateLeave" /\ last.outcome = "Created"
    /\ nextLeaveId = 3
    /\ DOMAIN leaves = {1, 2}
    /\ leaves[2].status = PENDING
    /\ leaves[2].document_path # NoDoc

\* C24: the approval checks no balance: approving a PENDING leave of d days
\* of an employee who holds fewer than d days of its type succeeds and takes
\* the balance below zero; two PENDING leaves on disjoint ranges that each
\* fitted the balance when created lead there, approved one after the other.
C24_ApprovalUnchecked ==
    [][\A l \in ReqLeaveIds :
        ( /\ Pending(l)
          /\ BalanceOf(employees[leaves[l].employee_id], leaves[l].leave_type)
                < leaves[l].days
          /\ SetStatus(l, APPROVED, Approver) )
        => /\ last'.outcome = "OK"
           /\ leaves'[l].status = APPROVED
           /\ BalanceOf(employees'[leaves[l].employee_id], leaves[l].leave_type)
                = BalanceOf(employees[leaves[l].employee_id], leaves[l].leave_type)
                    - leaves[l].days
           /\ BalanceOf(employees'[leaves[l].employee_id], leaves[l].leave_type) < 0
      ]_vars

\* Employee a, created with SmallBalance days of each type, holds two
\* APPROVED leaves of one type on disjoint ranges, each of no more than
\* SmallBalance days, and the balance of that type is below zero.
C24_Witness ==
    /\ last.op = "SetStatus" /\ last.outcome = "OK"
    /\ DOMAIN leaves = {1, 2}
    /\ leaves[1].status = APPROVED /\ leaves[2].status = APPROVED
    /\ leaves[1].employee_id = <<"a">> /\ leaves[2].employee_id = <<"a">>
    /\ leaves[1].leave_type = leaves[2].leave_type
    /\ leaves[1].days <= SmallBalance /\ leaves[2].days <= SmallBalance
    /\ ~SharesDay(leaves[1], leaves[2])
    /\ BalanceOf(employees[<<"a">>], leaves[1].leave_type)
         = SmallBalance - leaves[1].days - leaves[2].days
    /\ BalanceOf(employees[<<"a">>], leaves[1].leave_type) < 0

\* The employees a request names, whatever the case of the identifier.
Named(r) ==
    { e \in DOMAIN employees : toLowerCase(e) = toLowerCase(trim(r.employee_id)) }

\* The error kind of the first check a create-leave request fails, the
\* checks taken in their order, or "none" when it fails no check.
FirstFailure(r) ==
    LET T == trim(toUpperCase(r.leave_type))
        days == r.end_date - r.start_date + 1
    IN IF ~validateEmployeeId(r.employee_id) THEN "InvalidEmployeeId"
       ELSE IF T \notin {CL, RH, EL} THEN "InvalidLeaveType"
       ELSE IF r.start_date = NoDate \/ r.end_date = NoDate THEN "DatesRequired"
       ELSE IF r.start_date < Today \/ r.end_date < r.start_date
            THEN "InvalidDateRange"
       ELSE IF trim(r.reason) = <<>> THEN "ReasonRequired"
       ELSE IF Named(r) = {} THEN "NotFound"
       ELSE IF days > DaysCap(T) THEN "DaysExceedLimit"
       ELSE IF \E e \in Named(r) : BalanceOf(employees[e], T) < days
            THEN "InsufficientBalance"
       ELSE IF Conflicting(r) # {} THEN "OverlapConflict"
       ELSE "none"

\* C25: Create evaluates its checks in the order identifier format, leave
\* type, dates present, date range, reason, employee exists, per-type day
\* cap, balance, overlap; the first check that fails gives the error kind,
\* and a Create that fails persists no leave and changes no balance and no
\* existing leave.
C25_ChecksInOrder ==
    [][ /\ \A r \in ServiceRequests :
              FirstFailure(r) # "none" =>
                  CreateLeaveOutcome(r.employee_id, r.leave_type, r.start_date,
                                     r.end_date, r.reason) = FirstFailure(r)
        /\ (last'.op = "CreateLeave" /\ last'.outcome # "Created")
              => (leaves' = leaves /\ employees' = employees) ]_vars

\* Employees with a balance below zero, and with a balance above the cap of
\* its type.
BelowZero ==
    { e \in DOMAIN employees : \E T \in LeaveTypes : BalanceOf(employees[e], T) < 0 }
AboveCap ==
    { e \in DOMAIN employees :
        \/ employees[e].cl_balance > CapCL
        \/ employees[e].rh_balance > CapRH
        \/ employees[e].el_balance > CapEL }

\* C26: the health report counts the employees with a negative balance and
\* those with a balance over the cap of its type (CL 30, RH 15, EL 18), and
\* flags that remediation is needed exactly when some employee has one;
\* asked right after a completed sweep, it flags none needed.
C26_HealthFlagsViolations ==
    [][ SystemHealth =>
          /\ last'.ret.negativeBalances = Cardinality(BelowZero)
          /\ last'.ret.highBalances = Cardinality(AboveCap)
          /\ last'.ret.needsAttention <=> (BelowZero \cup AboveCap # {})
          /\ last.op = "checkDataIntegrity" => ~last'.ret.needsAttention ]_vars

\* The balance of type T that employee a is created with.
StartOf(T) == IF T = CL THEN DefaultCL ELSE IF T = RH THEN DefaultRH ELSE DefaultEL

\* C27: approvals that run at the same time on distinct PENDING leaves of
\* one employee conserve the balance: once none is in flight, the balance of
\* every type is the initial one less the days of the leaves of that type
\* that ended APPROVED.
C27_BalanceConserved ==
    NoneInFlight =>
        \A T \in LeaveTypes :
            BalanceOf(employees[<<"a">>], T) = StartOf(T) - ApprovedDays(<<"a">>, T)

\* Status requests in flight for leave l.
InFlightFor(l) ==
    { c \in Conns : calls[c].op = "SetStatus" /\ calls[c].req.leaveId = l }

\* C28: approvals of one and the same PENDING leave that run at the same
\* time deduct its days exactly once, also when both pass the PENDING check
\* and both report success: while the other leave is untouched the balance
\* of the type is the initial one or the initial one less the days, and it
\* is the latter once the leave is APPROVED and no approval of it is in
\* flight; the other balances keep their initial values.
C28_DeductedOnce ==
    \A l \in 1..2 :
        leaves[3 - l].status = PENDING =>
            LET T == leaves[l].leave_type
                b == BalanceOf(employees[<<"a">>], T)
            IN /\ b \in { StartOf(T), StartOf(T) - leaves[l].days }
               /\ (leaves[l].status = APPROVED /\ InFlightFor(l) = {})
                     => b = StartOf(T) - leaves[l].days
               /\ \A U \in LeaveTypes \ {T} :
                     BalanceOf(employees[<<"a">>], U) = StartOf(U)

\* One approval of a leave has answered OK and deducted its days while a
\* second approval of the same leave, which also found it PENDING, has yet
\* to write the balance.
C28_Witness ==
    /\ last.op = "SetStatus" /\ last.outcome = "OK"
    /\ \E c \in Conns :
          /\ calls[c].op = "SetStatus" /\ calls[c].pc = "marked"
          /\ calls[c].seen.leave.status = PENDING
          /\ leaves[calls[c].req.leaveId].status = APPROVED
          /\ leaves[3 - calls[c].req.leaveId].status = PENDING
          /\ BalanceOf(employees[<<"a">>], leaves[calls[c].req.leaveId].leave_type)
               = StartOf(leaves[calls[c].req.leaveId].leave_type)
                    - leaves[calls[c].req.leaveId].days

\* The APPROVED leaves of type T that employee a holds.
ApprovedOf(T) ==
    { l \in DOMAIN leaves :
        /\ leaves[l].employee_id = <<"a">>
        /\ leaves[l].leave_type = T
        /\ leaves[l].status = APPROVED }

\* C29: when a Delete and an approval of the same PENDING leave interleave,
\* the balance is reduced only if the leave is still there, APPROVED, at the
\* end: once no request is in flight, the balance of every type is the
\* initial one less the days of some of the APPROVED leaves of that type
\* that exist, never less the days of a leave that was removed.
C29_NoDeductionForRemoved ==
    NoneInFlight =>
        \A T \in LeaveTypes :
            BalanceOf(employees[<<"a">>], T)
                \in { StartOf(T), StartOf(T) - ApprovedDays(<<"a">>, T) }
                    \cup { StartOf(T) - leaves[l].days : l \in ApprovedOf(T) }

\* C30: every stored leave document is referenced by a persisted leave
\* record; a Create that carries a document and fails a validation, the
\* employee lookup, the balance check or the overlap check leaves no
\* document behind.
C30_DocumentsReferenced ==
    \A d \in docs : \E l \in DOMAIN leaves : leaves[l].document_path = d
====
